---- MODULE Spec2Model ----
(***************************************************************************)
(* Model of the physics-visualiser trajectory engine (physicsEngine.ts):   *)
(* the scenario classifier getSimulationType, the dispatcher               *)
(* generateSimulationData and the integration loops of the generators.     *)
(*                                                                         *)
(* Numbers.  The loop clock t is an IEEE-754 double in the code and the    *)
(* number of loop iterations depends on its rounding, so t is modelled     *)
(* bit-exactly: a time is a tuple of NLimbs base-65536 digits (least       *)
(* significant first) counting units of 2^-58 s, and FAdd rounds to 53     *)
(* significant bits, ties to even.  The other quantities are held in       *)
(* fixed point (units below); NaN is the empty tuple and a finite number   *)
(* v is <<v>>, with JavaScript's propagation and comparison rules.         *)
(*                                                                         *)
(* Units.  Parameters: gravity, mass, mass2, initialVelocity,              *)
(* initialHeight, appliedForce, length in tenths; angles in degrees;       *)
(* friction coefficients in hundredths.  Kinematics: velocity 1/250 m/s,   *)
(* position 1/12500 m, acceleration 1/10 m/s^2, energy 1/1000 J.           *)
(***************************************************************************)
EXTENDS Integers, Sequences, FiniteSets, TLC

(* ------------------------- IEEE-754 loop clock ------------------------- *)

Base == 2^16

\* 0.02 as a double is 0x147AE147AE147B * 2^-58
DT == <<5243, 18350, 31457, 20, 0>>
NLimbs == Len(DT)
ZeroTime == <<0, 0, 0, 0, 0>>
\* maxTime = 10 and maxTime = 5, in units of 2^-58
MaxTime10 == <<0, 0, 0, 10240, 0>>
MaxTime5 == <<0, 0, 0, 5120, 0>>

RECURSIVE Norm(_, _, _)
Norm(s, i, c) ==
    IF i > NLimbs THEN s
    ELSE LET v == s[i] + c
         IN Norm([s EXCEPT ![i] = v % Base], i + 1, v \div Base)

LAdd(a, b) == Norm([i \in 1..NLimbs |-> a[i] + b[i]], 1, 0)

LMul(a, k) == Norm([i \in 1..NLimbs |-> a[i] * k], 1, 0)

LLess(a, b) ==
    \E i \in 1..NLimbs : a[i] < b[i] /\ \A j \in (i + 1)..NLimbs : a[j] = b[j]

LLeq(a, b) == a = b \/ LLess(a, b)

BitLen16(d) == CHOOSE n \in 0..16 : d < 2^n /\ (n = 0 \/ d >= 2^(n - 1))

BitLen(a) ==
    IF \A i \in 1..NLimbs : a[i] = 0 THEN 0
    ELSE LET top == CHOOSE i \in 1..NLimbs :
                        a[i] # 0 /\ \A j \in (i + 1)..NLimbs : a[j] = 0
         IN 16 * (top - 1) + BitLen16(a[top])

\* round an exact value to the nearest double (53 significant bits, ties to even)
RoundDouble(a) ==
    LET d == BitLen(a) - 53
    IN IF d <= 0 THEN a
       ELSE LET unit == 2^d
                rem  == a[1] % unit
                down == [a EXCEPT ![1] = a[1] - rem]
                odd  == (a[1] \div unit) % 2 = 1
            IN IF rem * 2 > unit \/ (rem * 2 = unit /\ odd)
               THEN LAdd(down, [i \in 1..NLimbs |-> IF i = 1 THEN unit ELSE 0])
               ELSE down

\* t + dt in double arithmetic
FAdd(a, b) == RoundDouble(LAdd(a, b))

\* k * 0.02 in double arithmetic
FMulDt(k) == RoundDouble(LMul(DT, k))

(* --------------------------- JavaScript numbers ------------------------ *)

NaN == <<>>
Fin(v) == <<v>>
IsNaN(a) == a = NaN
Val(a) == a[1]

NAdd(a, b) == IF IsNaN(a) \/ IsNaN(b) THEN NaN ELSE Fin(Val(a) + Val(b))
NLt(a, b) == ~IsNaN(a) /\ ~IsNaN(b) /\ Val(a) < Val(b)
NGe(a, b) == ~IsNaN(a) /\ ~IsNaN(b) /\ Val(a) >= Val(b)

\* floor(a * b / c) for a >= 0 or exact quotients, without 32-bit overflow
MulDiv(a, b, c) == (a \div c) * b + ((a % c) * b) \div c

Has(p, k) == k \in DOMAIN p

\* params.k || d : the default replaces an absent key and also a zero
OrDefault(p, k, d) == IF Has(p, k) /\ p[k] # 0 THEN p[k] ELSE d

\* params.k used directly in arithmetic: undefined becomes NaN
ParamNum(p, k) == IF Has(p, k) THEN Fin(p[k]) ELSE NaN

\* params.k === c
ParamIs(p, k, c) == Has(p, k) /\ p[k] = c


(* ------------------------------ classifier ----------------------------- *)

\* mutation: the cone-angle key alone selects the conical pendulum
PendulumKindAngleOnly(p) ==
    IF Has(p, "angle") THEN "conical-pendulum" ELSE "pendulum"

PendulumKind(p) ==
    IF Has(p, "angle") /\ Has(p, "length") THEN "conical-pendulum" ELSE "pendulum"

\* mutation: the applied force is tested before the second mass
InclineKindForceFirst(p) ==
    IF Has(p, "appliedForce") THEN "friction-horizontal"
    ELSE IF Has(p, "mass2") THEN "incline-pulley" ELSE "incline-friction"

InclineKind(p) ==
    IF Has(p, "mass2") THEN "incline-pulley" ELSE "incline-friction"

KinematicsKind(p) ==
    IF ParamIs(p, "angle", 90) THEN "vertical-projectile"
    ELSE IF ParamIs(p, "angle", 270) /\ ParamIs(p, "initialVelocity", 0) THEN "free-fall"
    ELSE IF ParamIs(p, "angle", 0) \/ ParamIs(p, "angle", 180) THEN "uniform-acceleration"
    ELSE "projectile"

\* mutation: the older engine variant, without the stacked-block rule
FlatKindNoStack(p) ==
    IF Has(p, "appliedForce") THEN "friction-horizontal" ELSE KinematicsKind(p)

FlatKind(p) ==
    IF Has(p, "mass2") /\ Has(p, "appliedForce") THEN "block-on-block"
    ELSE IF Has(p, "appliedForce") THEN "friction-horizontal"
    ELSE KinematicsKind(p)

\* objType is problem.objects[0]?.type ("undefined" when there is no object)
getSimulationType(objType, p) ==
    IF objType = "pendulum" THEN PendulumKind(p)
    ELSE IF Has(p, "inclineAngle") THEN InclineKind(p)
    ELSE FlatKind(p)

\* the switch of generateSimulationData: the generator a simulation type runs
Dispatch(simulationType) ==
    CASE simulationType = "pendulum" -> "generatePendulumData"
      [] simulationType = "conical-pendulum" -> "generateConicalPendulumData"
      [] simulationType = "incline-friction" -> "generateInclineFrictionData"
      [] simulationType = "friction-horizontal" -> "generateFrictionHorizontalData"
      [] simulationType = "incline-pulley" -> "generateInclinePulleyData"
      [] simulationType \in {"projectile", "vertical-projectile", "free-fall",
                             "uniform-acceleration"} -> "generateKinematicsData"
      [] simulationType = "block-on-block" -> "generateBlockOnBlockData"
      [] OTHER -> "generateKinematicsData"

(* ------------------------------ kinematics ----------------------------- *)

\* quotient rounded toward zero
TDiv(a, b) == IF a >= 0 THEN a \div b ELSE -((-a) \div b)

\* Math.sin and Math.cos of a whole number of degrees, in thousandths
Sin1000(deg) ==
    CASE deg = 0 -> 0 [] deg = 30 -> 500 [] deg = 45 -> 707 [] deg = 60 -> 866
      [] deg = 90 -> 1000 [] deg = 180 -> 0 [] deg = 270 -> -1000

Cos1000(deg) ==
    CASE deg = 0 -> 1000 [] deg = 30 -> 866 [] deg = 45 -> 707 [] deg = 60 -> 500
      [] deg = 90 -> 0 [] deg = 180 -> -1000 [] deg = 270 -> 0

\* params.initialVelocity * Math.cos(angleRad), in 1/250 m/s
LaunchVx(p) ==
    IF Has(p, "initialVelocity") /\ Has(p, "angle")
    THEN Fin(TDiv(p["initialVelocity"] * Cos1000(p["angle"]), 40))
    ELSE NaN

\* params.initialVelocity * Math.sin(angleRad), in 1/250 m/s
LaunchVy(p) ==
    IF Has(p, "initialVelocity") /\ Has(p, "angle")
    THEN Fin(TDiv(p["initialVelocity"] * Sin1000(p["angle"]), 40))
    ELSE NaN

\* params.initialHeight || 0, in 1/12500 m
LaunchY(p) == Fin(OrDefault(p, "initialHeight", 0) * 1250)

\* the locals of generateKinematicsData before its loop
KinInit(p) ==
    [g |-> OrDefault(p, "gravity", 98),
     mass |-> OrDefault(p, "mass", 10),
     isUniformAccel |-> ParamIs(p, "angle", 0) \/ ParamIs(p, "angle", 180),
     cos |-> IF Has(p, "angle") THEN Cos1000(p["angle"]) ELSE 0,
     sin |-> IF Has(p, "angle") THEN Sin1000(p["angle"]) ELSE 0,
     vx |-> LaunchVx(p), vy |-> LaunchVy(p),
     x |-> Fin(0), y |-> LaunchY(p)]

\* acceleration of one step, in 1/10 m/s^2
KinAx(l) == IF l.isUniformAccel THEN TDiv(l.g * l.cos, 1000) ELSE 0
\* mutation: gravity stays vertical in the uniform-acceleration case
KinAyAlwaysGravity(l) == -l.g
KinAy(l) == IF l.isUniformAccel THEN TDiv(l.g * l.sin, 1000) ELSE -l.g

\* v += a * dt : a tenth of a m/s^2 over 0.02 s is half a velocity unit
KinVelocity(v, a) == NAdd(v, Fin(TDiv(a, 2)))

\* mutation: explicit Euler, the position advances by the velocity before its update
KinPositionOldVelocity(pos, vOld, vNew) == NAdd(pos, vOld)

\* x += v * dt with the updated velocity: a velocity unit over 0.02 s is a
\* position unit
KinPosition(pos, vOld, vNew) == NAdd(pos, vNew)

\* 0.5 * mass * speed * speed, in 1/1000 J
KinKE(mass, vx, vy) ==
    IF IsNaN(vx) \/ IsNaN(vy) THEN NaN
    ELSE Fin(MulDiv(Val(vx) * Val(vx) + Val(vy) * Val(vy), mass, 1250))

\* mass * g * Math.max(0, y), in 1/1000 J
KinPE(mass, g, y) ==
    IF IsNaN(y) THEN NaN
    ELSE Fin(MulDiv(IF Val(y) > 0 THEN Val(y) ELSE 0, mass * g, 1250))

\* the floor of the loop condition, y >= -100, in 1/12500 m
KinFloor == -1250000

\* mutation: the loop never breaks on the ground
KinBreakNever(y, n) == FALSE

\* if (y < 0 && data.length > 1) break
KinBreak(y, n) == NLt(y, Fin(0)) /\ n > 1

KinGuard(time, l) == LLess(time, MaxTime10) /\ NGe(l.y, Fin(KinFloor))

\* the locals after the body of one iteration
KinStep(l) ==
    LET vx == KinVelocity(l.vx, KinAx(l))
        vy == KinVelocity(l.vy, KinAy(l))
    IN [l EXCEPT !.vx = vx, !.vy = vy,
                 !.x = KinPosition(l.x, l.vx, vx),
                 !.y = KinPosition(l.y, l.vy, vy)]

\* the sample pushed by one iteration, from the locals after the step
KinSample(time, l) ==
    LET ke == KinKE(l.mass, l.vx, l.vy)
        pe == KinPE(l.mass, l.g, l.y)
    IN [time |-> time,
        positionX |-> l.x, positionY |-> l.y,
        velocityX |-> l.vx, velocityY |-> l.vy,
        accelerationX |-> Fin(KinAx(l)), accelerationY |-> Fin(KinAy(l)),
        kineticEnergy |-> ke, potentialEnergy |-> pe,
        totalEnergy |-> NAdd(ke, pe)]

(* ------------------------------- dynamics ------------------------------ *)
(* The friction and two-body generators share these units: acceleration    *)
(* 1/1000 m/s^2, velocity 1/50000 m/s (an acceleration unit over 0.02 s),   *)
(* position 1/2500000 m (a velocity unit over 0.02 s), force 1/100000 N    *)
(* (1/10000 N where no angle is involved), energy 1/1000 J.                *)

Abs(a) == IF a < 0 THEN -a ELSE a

\* Math.sign
Sign(a) == IF a > 0 THEN 1 ELSE IF a < 0 THEN -1 ELSE 0

\* a * b / c rounded toward zero (c > 0)
SMulDiv(a, b, c) ==
    LET n == MulDiv(Abs(a), Abs(b), c)
    IN IF (a < 0) # (b < 0) THEN -n ELSE n

\* sines and cosines of the incline angles, in thousandths
IncSin1000(deg) ==
    CASE deg = 0 -> 0 [] deg = 15 -> 259 [] deg = 30 -> 500 [] deg = 45 -> 707
      [] deg = 60 -> 866

IncCos1000(deg) ==
    CASE deg = 0 -> 1000 [] deg = 15 -> 966 [] deg = 30 -> 866 [] deg = 45 -> 707
      [] deg = 60 -> 500

\* the rest threshold 0.001 m/s, in velocity units
RestThreshold == 50

\* 0.5 * m * v^2 in 1/1000 J, m in tenths of a kg, v in velocity units;
\* v is split at 0.4 m/s to keep the products in range
HalfMV2(m, v) ==
    LET h == Abs(v) \div 20000
        l == Abs(v) % 20000
    IN m * h * h * 8 + MulDiv(h * l, m, 1250) + (((l * l) \div 50000) * m) \div 1000

\* m * g * h in 1/1000 J, m and g in tenths, h >= 0 in position units
MGH(m, g, h) == MulDiv(h \div 2500, m * g, 100)

(* inclined plane with friction *)

\* inclineLength = 7.5 m
InclineLength == 18750000
\* the slack of the loop condition, 0.5 m
InclineSlack == 1250000
\* the launch speed 8 m/s of a block sent up the slope
InclineLaunchSpeed == 400000

InclineInit(p) ==
    LET direction == OrDefault(p, "direction", 1)
        muK == OrDefault(p, "frictionCoefficient", 30)
    IN [g |-> OrDefault(p, "gravity", 98),
        mass |-> OrDefault(p, "mass", 10),
        angle |-> OrDefault(p, "inclineAngle", 30),
        muK |-> muK,
        muS |-> muK * 12,          \* muK * 1.2, in thousandths
        direction |-> direction,
        s |-> IF direction = 1 THEN InclineLength ELSE 0,
        v |-> IF direction = 1 THEN 0 ELSE InclineLaunchSpeed,
        a |-> 0]

InclineGravityForce(l) == -(l.mass * l.g * IncSin1000(l.angle))
InclineNormalForce(l) == l.mass * l.g * IncCos1000(l.angle)

InclineGuard(time, l) ==
    LLess(time, MaxTime10) /\ l.s >= 0 /\ l.s <= InclineLength + InclineSlack

\* mutation: static friction never holds the block
InclineLockedNever(l) == FALSE

\* locked at rest: |gravityForce| <= muS * normalForce
InclineLocked(l) ==
    /\ ~(Abs(l.v) > RestThreshold)
    /\ Abs(InclineGravityForce(l)) <= MulDiv(InclineNormalForce(l), l.muS, 1000)

\* mutation: kinetic friction always acts up the slope, whatever the velocity
InclineAccelFrictionUpSlope(l) ==
    LET kineticFriction == MulDiv(InclineNormalForce(l), l.muK, 100)
    IN IF InclineLocked(l) THEN 0
       ELSE TDiv(InclineGravityForce(l) + kineticFriction, 10 * l.mass)

InclineAccel(l) ==
    LET kineticFriction == MulDiv(InclineNormalForce(l), l.muK, 100)
    IN IF ~(Abs(l.v) > RestThreshold)
       THEN IF InclineLocked(l) THEN 0
            ELSE TDiv(InclineGravityForce(l) + kineticFriction, 10 * l.mass)
       ELSE TDiv(InclineGravityForce(l) - Sign(l.v) * kineticFriction, 10 * l.mass)

InclineStep(l) ==
    LET a == InclineAccel(l)
        v == (IF InclineLocked(l) THEN 0 ELSE l.v) + a
    IN [l EXCEPT !.a = a, !.v = v, !.s = l.s + v]

InclineSample(time, l) ==
    LET y == SMulDiv(l.s, IncSin1000(l.angle), 1000)
        ke == HalfMV2(l.mass, l.v)
        pe == Sign(y) * MGH(l.mass, l.g, Abs(y))
    IN [time |-> time,
        positionX |-> Fin(SMulDiv(l.s, IncCos1000(l.angle), 1000)),
        positionY |-> Fin(y),
        velocityX |-> Fin(SMulDiv(l.v, IncCos1000(l.angle), 1000)),
        velocityY |-> Fin(SMulDiv(l.v, IncSin1000(l.angle), 1000)),
        accelerationX |-> Fin(SMulDiv(l.a, IncCos1000(l.angle), 1000)),
        accelerationY |-> Fin(SMulDiv(l.a, IncSin1000(l.angle), 1000)),
        kineticEnergy |-> Fin(ke), potentialEnergy |-> Fin(pe),
        totalEnergy |-> Fin(ke + pe)]

(* friction on a horizontal surface *)

\* mutation: unit mass and frictionless surface when the keys are absent
HorizInitUnitDefaults(p) ==
    [g |-> OrDefault(p, "gravity", 98),
     mass |-> OrDefault(p, "mass", 10),
     appliedForce |-> OrDefault(p, "appliedForce", 150),
     muS |-> OrDefault(p, "staticFriction", 0),
     muK |-> OrDefault(p, "kineticFriction", 0),
     x |-> 0, v |-> 0, a |-> 0]

HorizInit(p) ==
    [g |-> OrDefault(p, "gravity", 98),
     mass |-> OrDefault(p, "mass", 25),
     appliedForce |-> OrDefault(p, "appliedForce", 150),
     muS |-> OrDefault(p, "staticFriction", 50),
     muK |-> OrDefault(p, "kineticFriction", 40),
     x |-> 0, v |-> 0, a |-> 0]

HorizGuard(time, l) == LLess(time, MaxTime5)

\* forces in 1/10000 N
HorizLocked(l) ==
    /\ Abs(l.v) < RestThreshold
    /\ l.appliedForce * 1000 <= l.muS * l.mass * l.g

HorizAccel(l) ==
    LET kineticFriction == l.muK * l.mass * l.g
    IN IF Abs(l.v) < RestThreshold
       THEN IF HorizLocked(l) THEN 0
            ELSE TDiv(l.appliedForce * 1000 - kineticFriction, l.mass)
       ELSE TDiv(l.appliedForce * 1000 - Sign(l.v) * kineticFriction, l.mass)

HorizStep(l) ==
    LET a == HorizAccel(l)
        v == (IF HorizLocked(l) THEN 0 ELSE l.v) + a
    IN [l EXCEPT !.a = a, !.v = v, !.x = l.x + v]

HorizSample(time, l) ==
    LET ke == HalfMV2(l.mass, l.v)
    IN [time |-> time,
        positionX |-> Fin(l.x), positionY |-> Fin(0),
        velocityX |-> Fin(l.v), velocityY |-> Fin(0),
        accelerationX |-> Fin(l.a), accelerationY |-> Fin(0),
        kineticEnergy |-> Fin(ke), potentialEnergy |-> Fin(0),
        totalEnergy |-> Fin(ke)]

(* inclined plane with pulley *)

\* the track bound of the loop condition, s < 5 m
PulleyTrack == 12500000

PulleyInit(p) ==
    LET muK == OrDefault(p, "frictionCoefficient", 20)
    IN [g |-> OrDefault(p, "gravity", 98),
        m1 |-> OrDefault(p, "mass", 20),
        m2 |-> OrDefault(p, "mass2", 15),
        angle |-> OrDefault(p, "inclineAngle", 30),
        muK |-> muK,
        muS |-> muK * 12,
        s |-> 0, v |-> 0, a |-> 0]

PulleyGuard(time, l) == LLess(time, MaxTime10) /\ l.s < PulleyTrack

PulleyNormalForce(l) == l.m1 * l.g * IncCos1000(l.angle)
\* m2GravityForce - m1GravityParallel
PulleyDrivingForce(l) == l.m2 * l.g * 1000 - l.m1 * l.g * IncSin1000(l.angle)

\* mutation: static friction never holds the system
PulleyLockedNever(l) == FALSE

PulleyLocked(l) ==
    /\ Abs(l.v) < RestThreshold
    /\ Abs(PulleyDrivingForce(l)) <= MulDiv(PulleyNormalForce(l), l.muS, 1000)

PulleyAccel(l) ==
    LET kineticFriction == MulDiv(PulleyNormalForce(l), l.muK, 100)
        drivingForce == PulleyDrivingForce(l)
    IN IF Abs(l.v) < RestThreshold
       THEN IF PulleyLocked(l) THEN 0
            ELSE TDiv(drivingForce - Sign(drivingForce) * kineticFriction,
                      10 * (l.m1 + l.m2))
       ELSE TDiv(drivingForce - Sign(l.v) * kineticFriction, 10 * (l.m1 + l.m2))

PulleyStep(l) ==
    LET a == PulleyAccel(l)
        v == (IF PulleyLocked(l) THEN 0 ELSE l.v) + a
    IN [l EXCEPT !.a = a, !.v = v, !.s = l.s + v]

\* mutation: the total leaves out the hanging mass
PulleySampleWithoutHanging(time, l) ==
    LET y1 == SMulDiv(l.s, IncSin1000(l.angle), 1000)
        y2 == y1 - l.s
        ke == HalfMV2(l.m1 + l.m2, l.v)
        pe1 == MGH(l.m1, l.g, Abs(y1))
        pe2 == MGH(l.m2, l.g, Abs(y2))
    IN [time |-> time,
        positionX |-> Fin(SMulDiv(l.s, IncCos1000(l.angle), 1000)),
        positionY |-> Fin(y1),
        velocityX |-> Fin(SMulDiv(l.v, IncCos1000(l.angle), 1000)),
        velocityY |-> Fin(-SMulDiv(l.v, IncSin1000(l.angle), 1000)),
        accelerationX |-> Fin(SMulDiv(l.a, IncCos1000(l.angle), 1000)),
        accelerationY |-> Fin(-SMulDiv(l.a, IncSin1000(l.angle), 1000)),
        kineticEnergy |-> Fin(ke), potentialEnergy |-> Fin(pe1 + pe2),
        totalEnergy |-> Fin(ke + pe1)]

PulleySample(time, l) ==
    LET y1 == SMulDiv(l.s, IncSin1000(l.angle), 1000)
        y2 == y1 - l.s
        ke == HalfMV2(l.m1 + l.m2, l.v)
        pe1 == MGH(l.m1, l.g, Abs(y1))
        pe2 == MGH(l.m2, l.g, Abs(y2))
    IN [time |-> time,
        positionX |-> Fin(SMulDiv(l.s, IncCos1000(l.angle), 1000)),
        positionY |-> Fin(y1),
        velocityX |-> Fin(SMulDiv(l.v, IncCos1000(l.angle), 1000)),
        velocityY |-> Fin(-SMulDiv(l.v, IncSin1000(l.angle), 1000)),
        accelerationX |-> Fin(SMulDiv(l.a, IncCos1000(l.angle), 1000)),
        accelerationY |-> Fin(-SMulDiv(l.a, IncSin1000(l.angle), 1000)),
        kineticEnergy |-> Fin(ke), potentialEnergy |-> Fin(pe1 + pe2),
        totalEnergy |-> Fin(ke + pe1 + pe2)]

(* block on block *)

BlockInit(p) ==
    [g |-> OrDefault(p, "gravity", 98),
     m1 |-> OrDefault(p, "mass", 20),
     m2 |-> OrDefault(p, "mass2", 40),
     F |-> OrDefault(p, "appliedForce", 200),
     mu1 |-> OrDefault(p, "frictionCoefficient", 30),
     mu2 |-> OrDefault(p, "frictionCoefficient2", 10),
     x1 |-> 0, v1 |-> 0, x2 |-> 0, v2 |-> 0, a1 |-> 0, a2 |-> 0]

BlockGuard(time, l) == LLess(time, MaxTime10)

\* mutation: the blocks never slip on each other
BlockAccelNoSlip(l) ==
    LET netForceSystem == l.F * 1000 - l.mu2 * (l.m1 + l.m2) * l.g
        a_common == TDiv(netForceSystem, l.m1 + l.m2)
    IN IF netForceSystem > 0 THEN <<a_common, a_common>> ELSE <<0, 0>>

\* forces in 1/10000 N: <<a1, a2>>
BlockAccel(l) ==
    LET f1_max == l.mu1 * l.m1 * l.g
        f1_k == l.mu1 * l.m1 * l.g
        f2_k == l.mu2 * (l.m1 + l.m2) * l.g
        netForceSystem == l.F * 1000 - f2_k
        a_common == TDiv(netForceSystem, l.m1 + l.m2)
        f_needed == l.m1 * a_common
    IN IF netForceSystem > 0
       THEN IF f_needed <= f1_max THEN <<a_common, a_common>>
            ELSE <<TDiv(f1_k, l.m1), TDiv(l.F * 1000 - f2_k - f1_k, l.m2)>>
       ELSE <<0, 0>>

BlockStep(l) ==
    LET a == BlockAccel(l)
        v1 == l.v1 + a[1]
        v2 == l.v2 + a[2]
    IN [l EXCEPT !.a1 = a[1], !.a2 = a[2], !.v1 = v1, !.v2 = v2,
                 !.x1 = l.x1 + v1, !.x2 = l.x2 + v2]

BlockSample(time, l) ==
    LET ke == HalfMV2(l.m1, l.v1) + HalfMV2(l.m2, l.v2)
    IN [time |-> time,
        positionX |-> Fin(l.x2), positionY |-> Fin(l.x1 - l.x2),
        velocityX |-> Fin(l.v1), velocityY |-> Fin(l.v2),
        accelerationX |-> Fin(l.a1), accelerationY |-> Fin(l.a2),
        kineticEnergy |-> Fin(ke), potentialEnergy |-> Fin(0),
        totalEnergy |-> Fin(ke)]

(* ------------------------------ pendulums ------------------------------ *)
(* Angles of the swinging pendulum: theta in 1e-8 rad, omega in 5e-7 rad/s  *)
(* (an alpha unit over 0.02 s), alpha in 2.5e-5 rad/s^2.  Math.sin and      *)
(* Math.cos take and return millionths.                                    *)

Million == 10^6
PiMicro == 3141593
TwoPiMicro == 6283185
HalfPiMicro == 1570796

\* a * b / 10^6 rounded toward zero, for |a|, |b| below 10^7
MicroMul(a, b) ==
    LET x == Abs(a)
        y == Abs(b)
        n == MulDiv(x, y \div 1000, 1000) + MulDiv(x, y % 1000, Million)
    IN IF (a < 0) # (b < 0) THEN -n ELSE n

\* Taylor polynomials on [-pi/2, pi/2]
SinPoly(x) ==
    LET x2 == MicroMul(x, x)
        h4 == Million - x2 \div 72
        h3 == Million - MicroMul(x2, h4) \div 42
        h2 == Million - MicroMul(x2, h3) \div 20
        h1 == Million - MicroMul(x2, h2) \div 6
    IN MicroMul(x, h1)

CosPoly(x) ==
    LET x2 == MicroMul(x, x)
        h4 == Million - x2 \div 90
        h3 == Million - MicroMul(x2, h4) \div 56
        h2 == Million - MicroMul(x2, h3) \div 30
        h1 == Million - MicroMul(x2, h2) \div 12
    IN Million - MicroMul(x2, h1) \div 2

\* the angle brought into (-pi, pi]
Reduce(x) == ((x + PiMicro) % TwoPiMicro) - PiMicro

MathSin(x) ==
    LET r == Reduce(x)
    IN IF r > HalfPiMicro THEN SinPoly(PiMicro - r)
       ELSE IF r < -HalfPiMicro THEN SinPoly(-PiMicro - r)
       ELSE SinPoly(r)

MathCos(x) ==
    LET r == Reduce(x)
    IN IF r > HalfPiMicro THEN -CosPoly(PiMicro - r)
       ELSE IF r < -HalfPiMicro THEN -CosPoly(-PiMicro - r)
       ELSE CosPoly(r)

\* floor of the square root
RECURSIVE SqrtBetween(_, _, _)
SqrtBetween(n, lo, hi) ==
    IF hi - lo <= 1 THEN lo
    ELSE LET mid == (lo + hi) \div 2
         IN IF mid * mid <= n THEN SqrtBetween(n, mid, hi) ELSE SqrtBetween(n, lo, mid)

MathSqrt(n) == SqrtBetween(n, 0, 46341)

\* a clock value in milliseconds, to the nearest
TimeMs(time) ==
    ((time[5] * Base + time[4]) * 1000 + (time[3] * 1000) \div Base + 512) \div 1024

(* simple pendulum *)

PendInit(p) ==
    LET deg == OrDefault(p, "initialAngle", 30)
    IN [g |-> OrDefault(p, "gravity", 98),
        length |-> OrDefault(p, "length", 10),
        mass |-> OrDefault(p, "mass", 10),
        theta |-> deg * 1745329 + deg \div 4,     \* deg * pi / 180
        omega |-> 0, alpha |-> 0]

PendGuard(time, l) == LLess(time, MaxTime10)

\* alpha = -(g / length) * sin(theta)
PendAlpha(l) == -TDiv(l.g * MathSin(TDiv(l.theta, 100)), 25 * l.length)

PendStep(l) ==
    LET alpha == PendAlpha(l)
        omega == l.omega + alpha
    IN [l EXCEPT !.alpha = alpha, !.omega = omega, !.theta = l.theta + omega]

PendSample(time, l) ==
    LET sin == MathSin(TDiv(l.theta, 100))
        cos == MathCos(TDiv(l.theta, 100))
        lw == TDiv(l.length * l.omega, 400)        \* length * omega, velocity units
        la == TDiv(l.length * l.alpha, 400)        \* length * alpha, acceleration units
        ke == HalfMV2(l.mass, lw)
        pe == (MulDiv(Million - cos, l.mass * l.g, 1000) * l.length) \div 1000
    IN [time |-> time,
        positionX |-> Fin(TDiv(l.length * sin, 4)),
        positionY |-> Fin(-TDiv(l.length * cos, 4)),
        velocityX |-> Fin(MicroMul(lw, cos)),
        velocityY |-> Fin(MicroMul(lw, sin)),
        accelerationX |-> Fin(-MicroMul(la, sin)),
        accelerationY |-> Fin(-MicroMul(la, cos)),
        kineticEnergy |-> Fin(ke), potentialEnergy |-> Fin(pe),
        totalEnergy |-> Fin(ke + pe)]

(* conical pendulum *)

ConicalInit(p) ==
    LET g == OrDefault(p, "gravity", 98)
        length == OrDefault(p, "length", 10)
        deg == OrDefault(p, "angle", 30)
    IN [g |-> g, length |-> length,
        mass |-> OrDefault(p, "mass", 10),
        radius |-> length * Sin1000(deg) * 250,     \* position units
        height |-> length * Cos1000(deg) * 250,
        \* Math.sqrt(g / (length * cos)), in 1/1000 rad/s
        omega |-> MathSqrt(MulDiv(g * Million, 1000, length * Cos1000(deg)))]

ConicalGuard(time, l) == LLess(time, MaxTime10)

ConicalSample(time, l) ==
    LET phi == l.omega * TimeMs(time)
        speed == MulDiv(l.radius, l.omega, 50000)   \* radius * omega, velocity units
        ke == HalfMV2(l.mass, speed)
        pe == MGH(l.mass, l.g, l.length * 250000 - l.height)
    IN [time |-> time,
        positionX |-> Fin(MicroMul(l.radius, MathCos(phi))),
        positionY |-> Fin(-l.height),
        velocityX |-> Fin(-MicroMul(speed, MathSin(phi))),
        velocityY |-> Fin(0),
        accelerationX |-> Fin(-MicroMul(MulDiv(speed, l.omega, 50000), MathCos(phi))),
        accelerationY |-> Fin(0),
        kineticEnergy |-> Fin(ke), potentialEnergy |-> Fin(pe),
        totalEnergy |-> Fin(ke + pe)]

(* ---------------------------- state machine ---------------------------- *)

VARIABLES
    objectType,   \* problem.objects[0]?.type
    params,       \* the SimulationParameters mapping: a function on the present keys
    pc,           \* "idle", "classified", "loop" (inside a generator's loop), "done"
    simType,      \* the value returned by getSimulationType
    gen,          \* the generator chosen by generateSimulationData
    loc,          \* the locals of the running generator
    t,            \* the generator's clock, a double
    data,         \* the GraphDataPoint[] built so far
    returned,     \* the calls that returned: their arguments and their array
    currentView,  \* workspace state: 'input', 'browser' or 'simulation'
    simulation,   \* workspace state: the loaded SimulationTemplate, or null
    problem,      \* workspace state: the PhysicsProblem built from it, or null
    parameters,   \* workspace state: the SimulationParameters of the sliders
    graphData,    \* workspace state: the trajectory on display
    isPlaying,    \* workspace state
    currentTime,  \* workspace state: the animation clock, a double
    autoPlayDue,  \* the canvas got a new graphData and its effect has not run yet
    changes       \* parameter changes since the simulation was loaded

engine == <<objectType, params, pc, simType, gen, loc, t, data, returned>>

workspace == <<currentView, simulation, problem, parameters, graphData, isPlaying,
               currentTime, autoPlayDue, changes>>

vars == <<engine, workspace>>

\* parameter changes followed per loaded simulation, and animation frames
MaxChanges == 1
MaxFrames == 2

\* the null of a useState that holds no object yet
Null == [null |-> TRUE]

\* the useState initial values of SimulationWorkspace, before any canvas is shown
WorkspaceInit ==
    /\ currentView = "input"
    /\ simulation = Null
    /\ problem = Null
    /\ parameters = [initialVelocity |-> 100, angle |-> 45, gravity |-> 98, mass |-> 10]
    /\ graphData = <<>>
    /\ isPlaying = FALSE
    /\ currentTime = ZeroTime
    /\ autoPlayDue = FALSE
    /\ changes = 0

\* the locals of a generator before its loop
GenInit(generator, p) ==
    CASE generator = "generateKinematicsData" -> KinInit(p)
      [] generator = "generatePendulumData" -> PendInit(p)
      [] generator = "generateConicalPendulumData" -> ConicalInit(p)
      [] generator = "generateInclineFrictionData" -> InclineInit(p)
      [] generator = "generateFrictionHorizontalData" -> HorizInit(p)
      [] generator = "generateInclinePulleyData" -> PulleyInit(p)
      [] generator = "generateBlockOnBlockData" -> BlockInit(p)

\* the condition of a generator's while loop
GenGuard(generator, time, l) ==
    CASE generator = "generateKinematicsData" -> KinGuard(time, l)
      [] generator = "generatePendulumData" -> PendGuard(time, l)
      [] generator = "generateConicalPendulumData" -> ConicalGuard(time, l)
      [] generator = "generateInclineFrictionData" -> InclineGuard(time, l)
      [] generator = "generateFrictionHorizontalData" -> HorizGuard(time, l)
      [] generator = "generateInclinePulleyData" -> PulleyGuard(time, l)
      [] generator = "generateBlockOnBlockData" -> BlockGuard(time, l)

\* mutation: the generators append to one shared array
NewTrajectoryShared == data

\* const data: GraphDataPoint[] = []
NewTrajectory == <<>>

\* getSimulationType(problem, params) called on its own
GetSimulationType ==
    /\ pc = "idle"
    /\ simType' = getSimulationType(objectType, params)
    /\ pc' = "classified"
    /\ UNCHANGED <<workspace, returned, objectType, params, gen, loc, t, data>>

\* generateSimulationData up to the first test of the generator's loop
GenerateSimulationData ==
    /\ pc = "idle"
    /\ simType' = getSimulationType(objectType, params)
    /\ gen' = Dispatch(simType')
    /\ loc' = GenInit(gen', params)
    /\ t' = ZeroTime
    /\ data' = NewTrajectory
    /\ pc' = "loop"
    /\ UNCHANGED <<workspace, returned, objectType, params>>

\* one iteration of the loop of generateKinematicsData
KinematicsStep ==
    /\ pc = "loop"
    /\ gen = "generateKinematicsData"
    /\ KinGuard(t, loc)
    /\ loc' = KinStep(loc)
    /\ data' = Append(data, KinSample(t, loc'))
    /\ t' = FAdd(t, DT)
    /\ pc' = IF KinBreak(loc'.y, Len(data')) THEN "done" ELSE "loop"
    /\ UNCHANGED <<workspace, returned, objectType, params, simType, gen>>

\* one iteration of the loop of generatePendulumData
PendulumStep ==
    /\ pc = "loop"
    /\ gen = "generatePendulumData"
    /\ PendGuard(t, loc)
    /\ loc' = PendStep(loc)
    /\ data' = Append(data, PendSample(t, loc'))
    /\ t' = FAdd(t, DT)
    /\ UNCHANGED <<workspace, returned, objectType, params, pc, simType, gen>>

\* one iteration of the loop of generateConicalPendulumData
ConicalPendulumStep ==
    /\ pc = "loop"
    /\ gen = "generateConicalPendulumData"
    /\ ConicalGuard(t, loc)
    /\ data' = Append(data, ConicalSample(t, loc))
    /\ t' = FAdd(t, DT)
    /\ UNCHANGED <<workspace, returned, objectType, params, pc, simType, gen, loc>>

\* one iteration of the loop of generateInclineFrictionData
InclineFrictionStep ==
    /\ pc = "loop"
    /\ gen = "generateInclineFrictionData"
    /\ InclineGuard(t, loc)
    /\ loc' = InclineStep(loc)
    /\ data' = Append(data, InclineSample(t, loc'))
    /\ t' = FAdd(t, DT)
    /\ UNCHANGED <<workspace, returned, objectType, params, pc, simType, gen>>

\* one iteration of the loop of generateFrictionHorizontalData
FrictionHorizontalStep ==
    /\ pc = "loop"
    /\ gen = "generateFrictionHorizontalData"
    /\ HorizGuard(t, loc)
    /\ loc' = HorizStep(loc)
    /\ data' = Append(data, HorizSample(t, loc'))
    /\ t' = FAdd(t, DT)
    /\ UNCHANGED <<workspace, returned, objectType, params, pc, simType, gen>>

\* one iteration of the loop of generateInclinePulleyData
InclinePulleyStep ==
    /\ pc = "loop"
    /\ gen = "generateInclinePulleyData"
    /\ PulleyGuard(t, loc)
    /\ loc' = PulleyStep(loc)
    /\ data' = Append(data, PulleySample(t, loc'))
    /\ t' = FAdd(t, DT)
    /\ UNCHANGED <<workspace, returned, objectType, params, pc, simType, gen>>

\* one iteration of the loop of generateBlockOnBlockData
BlockOnBlockStep ==
    /\ pc = "loop"
    /\ gen = "generateBlockOnBlockData"
    /\ BlockGuard(t, loc)
    /\ loc' = BlockStep(loc)
    /\ data' = Append(data, BlockSample(t, loc'))
    /\ t' = FAdd(t, DT)
    /\ UNCHANGED <<workspace, returned, objectType, params, pc, simType, gen>>

\* the loop condition fails: return data
ReturnData ==
    /\ pc = "loop"
    /\ ~GenGuard(gen, t, loc)
    /\ pc' = "done"
    /\ UNCHANGED <<workspace, returned, objectType, params, simType, gen, loc, t, data>>

(* ------------------------------- inputs -------------------------------- *)

\* the catalog's object types, and a problem without objects
ObjectTypes == {"point_mass", "block", "pendulum", "undefined"}

Scenarios ==
    { [objectType |-> "point_mass",
       params |-> [initialVelocity |-> 100, angle |-> 90, gravity |-> 98, mass |-> 10]],
      [objectType |-> "point_mass",
       params |-> [initialVelocity |-> 0, angle |-> 270, gravity |-> 98, mass |-> 10]],
      [objectType |-> "point_mass",
       params |-> [initialVelocity |-> 50, angle |-> 0, gravity |-> 20, mass |-> 10]],
      [objectType |-> "point_mass",
       params |-> [initialVelocity |-> 150, angle |-> 45, gravity |-> 98, mass |-> 10]],
      [objectType |-> "point_mass",
       params |-> [initialVelocity |-> 100, angle |-> 30, gravity |-> 98]],
      [objectType |-> "point_mass",
       params |-> [initialVelocity |-> 100, angle |-> 270, initialHeight |-> 100]],
      [objectType |-> "point_mass",
       params |-> [initialVelocity |-> 100, angle |-> 180, gravity |-> 98, mass |-> 20]],
      [objectType |-> "point_mass", params |-> [gravity |-> 98, mass |-> 10]],
      [objectType |-> "point_mass", params |-> [angle |-> 45, gravity |-> 98]],
      [objectType |-> "undefined", params |-> [initialVelocity |-> 100, gravity |-> 98]],
      [objectType |-> "pendulum",
       params |-> [length |-> 10, initialAngle |-> 30, mass |-> 10, gravity |-> 98]],
      [objectType |-> "pendulum", params |-> [gravity |-> 98]],
      [objectType |-> "pendulum",
       params |-> [length |-> 10, angle |-> 30, mass |-> 10, gravity |-> 98]],
      [objectType |-> "block",
       params |-> [mass |-> 20, inclineAngle |-> 30, frictionCoefficient |-> 30,
                   gravity |-> 98]],
      [objectType |-> "block", params |-> [inclineAngle |-> 30]],
      [objectType |-> "block", params |-> [inclineAngle |-> 30, direction |-> -1]],
      [objectType |-> "block",
       params |-> [inclineAngle |-> 15, frictionCoefficient |-> 30]],
      [objectType |-> "block",
       params |-> [inclineAngle |-> 45, frictionCoefficient |-> 50, direction |-> -1]],
      [objectType |-> "block",
       params |-> [inclineAngle |-> 30, frictionCoefficient |-> 50]],
      [objectType |-> "block",
       params |-> [inclineAngle |-> 30, frictionCoefficient |-> 50, direction |-> -1]],
      [objectType |-> "block", params |-> [appliedForce |-> 150]],
      [objectType |-> "block",
       params |-> [mass |-> 25, appliedForce |-> -200, staticFriction |-> 50,
                   kineticFriction |-> 40, gravity |-> 98]],
      [objectType |-> "block",
       params |-> [mass |-> 25, appliedForce |-> 150, staticFriction |-> 50,
                   kineticFriction |-> 100, gravity |-> 98]],
      [objectType |-> "block",
       params |-> [mass |-> 25, appliedForce |-> 100, staticFriction |-> 50,
                   kineticFriction |-> 40, gravity |-> 98]],
      [objectType |-> "block",
       params |-> [mass |-> 25, appliedForce |-> 350, gravity |-> 98]],
      [objectType |-> "block",
       params |-> [mass |-> 20, mass2 |-> 15, inclineAngle |-> 30,
                   frictionCoefficient |-> 20, gravity |-> 98]],
      [objectType |-> "block",
       params |-> [mass |-> 20, mass2 |-> 10, inclineAngle |-> 30,
                   frictionCoefficient |-> 30]],
      [objectType |-> "block",
       params |-> [mass |-> 40, mass2 |-> 5, inclineAngle |-> 30,
                   frictionCoefficient |-> 5]],
      [objectType |-> "block", params |-> [mass2 |-> 15, inclineAngle |-> 30]],
      [objectType |-> "block",
       params |-> [mass |-> 20, mass2 |-> 12, inclineAngle |-> 30,
                   frictionCoefficient |-> 30]],
      [objectType |-> "pendulum", params |-> [length |-> 20, angle |-> 60]],
      [objectType |-> "block", params |-> [mass2 |-> 40, appliedForce |-> 200]],
      [objectType |-> "block", params |-> [mass2 |-> 40, appliedForce |-> 400]],
      [objectType |-> "block", params |-> [mass2 |-> 40, appliedForce |-> 235]],
      [objectType |-> "block", params |-> [mass2 |-> 40, appliedForce |-> 236]],
      [objectType |-> "block", params |-> [mass2 |-> 40, appliedForce |-> 50]] }

Init ==
    /\ \E sc \in Scenarios : objectType = sc.objectType /\ params = sc.params
    /\ pc = "idle"
    /\ simType = "none"
    /\ gen = "none"
    /\ loc = [none |-> TRUE]
    /\ t = ZeroTime
    /\ data = <<>>
    /\ returned = <<>>
    /\ WorkspaceInit

Next ==
    \/ GenerateSimulationData
    \/ KinematicsStep
    \/ PendulumStep
    \/ ConicalPendulumStep
    \/ InclineFrictionStep
    \/ FrictionHorizontalStep
    \/ InclinePulleyStep
    \/ BlockOnBlockStep
    \/ ReturnData

Spec == Init /\ [][Next]_vars

(* --------------------- a whole call, as one function ------------------- *)

\* the body of a generator's loop: the locals after the tick
GenStep(generator, l) ==
    CASE generator = "generateKinematicsData" -> KinStep(l)
      [] generator = "generatePendulumData" -> PendStep(l)
      [] generator = "generateConicalPendulumData" -> l
      [] generator = "generateInclineFrictionData" -> InclineStep(l)
      [] generator = "generateFrictionHorizontalData" -> HorizStep(l)
      [] generator = "generateInclinePulleyData" -> PulleyStep(l)
      [] generator = "generateBlockOnBlockData" -> BlockStep(l)

\* the sample pushed by a tick
GenSample(generator, time, l) ==
    CASE generator = "generateKinematicsData" -> KinSample(time, l)
      [] generator = "generatePendulumData" -> PendSample(time, l)
      [] generator = "generateConicalPendulumData" -> ConicalSample(time, l)
      [] generator = "generateInclineFrictionData" -> InclineSample(time, l)
      [] generator = "generateFrictionHorizontalData" -> HorizSample(time, l)
      [] generator = "generateInclinePulleyData" -> PulleySample(time, l)
      [] generator = "generateBlockOnBlockData" -> BlockSample(time, l)

\* a call in progress: the clock, the locals, the array, and whether it returned
\* one test of the loop condition and, when it holds, one tick
RunTick(generator, st) ==
    IF st.returned \/ ~GenGuard(generator, st.time, st.l)
    THEN [st EXCEPT !.returned = TRUE]
    ELSE LET l2 == GenStep(generator, st.l)
             d2 == Append(st.d, GenSample(generator, st.time, l2))
         IN [time |-> FAdd(st.time, DT), l |-> l2, d |-> d2,
             returned |-> generator = "generateKinematicsData"
                            /\ KinBreak(l2.y, Len(d2))]

\* n tests of the loop condition, by halves
RECURSIVE RunTicks(_, _, _)
RunTicks(generator, st, n) ==
    IF n = 1 THEN RunTick(generator, st)
    ELSE LET half == RunTicks(generator, st, n \div 2)
         IN IF half.returned THEN half
            ELSE RunTicks(generator, half, n - n \div 2)

\* more tests than any loop passes: maxTime / dt is 500
LoopTests == 2^9

generateSimulationData(objType, p) ==
    LET generator == Dispatch(getSimulationType(objType, p))
    IN RunTicks(generator,
                [time |-> ZeroTime, l |-> GenInit(generator, p), d |-> NewTrajectory,
                 returned |-> FALSE],
                LoopTests).d

(* ------------------- the simulation catalog (backend) ------------------ *)

\* a slider of a template: the key it sets and its range, in the units of params
Slider(key, min, max) == [key |-> key, min |-> min, max |-> max]

\* SIMULATION_LIBRARY: id, objectType, defaultParameters, parameterDefinitions
Catalog ==
    << [id |-> "projectile-motion", objectType |-> "point_mass",
        defaultParameters |->
            [initialVelocity |-> 150, angle |-> 45, gravity |-> 98, mass |-> 10],
        parameterDefinitions |->
            { Slider("initialVelocity", 10, 500), Slider("angle", 0, 90),
              Slider("gravity", 10, 200), Slider("mass", 1, 100) }],
       [id |-> "vertical-projectile", objectType |-> "point_mass",
        defaultParameters |->
            [initialVelocity |-> 100, angle |-> 90, gravity |-> 98, mass |-> 10],
        parameterDefinitions |->
            { Slider("initialVelocity", 10, 300), Slider("gravity", 10, 200),
              Slider("mass", 1, 100) }],
       [id |-> "free-fall", objectType |-> "point_mass",
        defaultParameters |->
            [initialVelocity |-> 0, angle |-> 270, gravity |-> 98, mass |-> 10],
        parameterDefinitions |->
            { Slider("gravity", 10, 200), Slider("mass", 1, 100) }],
       [id |-> "uniform-acceleration-1d", objectType |-> "point_mass",
        defaultParameters |->
            [initialVelocity |-> 50, angle |-> 0, gravity |-> 20, mass |-> 10],
        parameterDefinitions |->
            { Slider("initialVelocity", 0, 200), Slider("gravity", 0, 100),
              Slider("mass", 1, 100) }],
       [id |-> "inclined-plane-friction", objectType |-> "block",
        defaultParameters |->
            [mass |-> 20, inclineAngle |-> 30, frictionCoefficient |-> 30,
             gravity |-> 98],
        parameterDefinitions |->
            { Slider("mass", 5, 100), Slider("inclineAngle", 0, 60),
              Slider("frictionCoefficient", 0, 100), Slider("gravity", 10, 200) }],
       [id |-> "friction-horizontal", objectType |-> "block",
        defaultParameters |->
            [mass |-> 25, tension |-> 350, theta |-> 30, staticFriction |-> 50,
             kineticFriction |-> 40, gravity |-> 98],
        parameterDefinitions |->
            { Slider("tension", 0, 1000), Slider("mass", 5, 100),
              Slider("theta", 0, 90), Slider("staticFriction", 0, 100),
              Slider("kineticFriction", 0, 100) }],
       [id |-> "inclined-plane-pulley", objectType |-> "block",
        defaultParameters |->
            [mass |-> 20, mass2 |-> 15, inclineAngle |-> 30,
             frictionCoefficient |-> 20, gravity |-> 98],
        parameterDefinitions |->
            { Slider("mass", 5, 100), Slider("mass2", 5, 100),
              Slider("inclineAngle", 0, 60), Slider("frictionCoefficient", 0, 100),
              Slider("gravity", 10, 200) }],
       [id |-> "simple-pendulum", objectType |-> "pendulum",
        defaultParameters |->
            [length |-> 10, initialAngle |-> 30, mass |-> 10, gravity |-> 98],
        parameterDefinitions |->
            { Slider("length", 5, 30), Slider("initialAngle", 5, 60),
              Slider("mass", 1, 50), Slider("gravity", 10, 200) }],
       [id |-> "conical-pendulum", objectType |-> "pendulum",
        defaultParameters |->
            [length |-> 10, angle |-> 30, mass |-> 10, gravity |-> 98],
        parameterDefinitions |->
            { Slider("length", 5, 30), Slider("angle", 10, 70),
              Slider("mass", 1, 50), Slider("gravity", 10, 200) }] >>

Templates == {Catalog[i] : i \in DOMAIN Catalog}

(* ------------------------ the workspace component ---------------------- *)

\* the positions tried on an angle slider, among the angles the sine tables hold
AngleSamples == {60, 90}

\* the positions a slider is moved to: both ends of its range, or, for a launch
\* or cone angle, the tabulated angles of its range
SliderPositions(def) ==
    IF def.key = "angle"
    THEN {v \in AngleSamples : def.min <= v /\ v <= def.max}
    ELSE {def.min, def.max}

\* the sliders the control panel shows, simulation?.parameterDefinitions; with
\* nothing loaded no slider is shown, and the handler is called with any of them
ParameterDefs(sim) ==
    IF sim = Null THEN UNION {tm.parameterDefinitions : tm \in Templates}
    ELSE sim.parameterDefinitions

\* { ...parameters, [key]: value }
Spread(p, key, value) ==
    [k \in DOMAIN p \cup {key} |-> IF k = key THEN value ELSE p[k]]

\* the PhysicsProblem built from a template: the part the engine reads
NewProblem(simTemplate) == [objects |-> <<[type |-> simTemplate.objectType]>>]

\* the parameters a template has after at most n slider moves
RECURSIVE ParamsAfter(_, _)
ParamsAfter(simTemplate, n) ==
    IF n = 0 THEN {simTemplate.defaultParameters}
    ELSE LET before == ParamsAfter(simTemplate, n - 1)
             Moved(p) == UNION { { Spread(p, def.key, value) :
                                     value \in SliderPositions(def) } :
                                 def \in simTemplate.parameterDefinitions }
         IN before \cup UNION { Moved(p) : p \in before }

\* every call the workspace makes of the engine within MaxChanges slider moves
WorkspaceCalls ==
    UNION { { [type |-> tm.objectType, params |-> p] :
                p \in ParamsAfter(tm, MaxChanges) } : tm \in Templates }

\* generateSimulationData on those calls, computed once
Trajectories ==
    [call \in WorkspaceCalls |-> generateSimulationData(call.type, call.params)]

\* generateSimulationData(problem, params) on a stored problem
Regenerate(prob, p) == Trajectories[[type |-> prob.objects[1].type, params |-> p]]

\* the clock after n animation frames
RECURSIVE ClockAfter(_)
ClockAfter(n) == IF n = 0 THEN ZeroTime ELSE FAdd(ClockAfter(n - 1), DT)

\* the state the generator variables keep while the workspace runs
GeneratorIdle ==
    /\ objectType = "undefined"
    /\ params = <<>>
    /\ pc = "idle"
    /\ simType = "none"
    /\ gen = "none"
    /\ loc = [none |-> TRUE]
    /\ t = ZeroTime
    /\ data = <<>>
    /\ returned = <<>>

\* the simulation view is rendered: canvas and control panel are mounted
SimulationShown == currentView = "simulation" /\ simulation # Null /\ problem # Null

\* loadSimulation(simTemplate), called by the search box or the browser; the
\* canvas mounts with the new trajectory, so its auto-play effect is due
LoadSimulation ==
    /\ currentView \in {"input", "browser"}
    /\ \E simTemplate \in Templates :
         /\ simulation' = simTemplate
         /\ problem' = NewProblem(simTemplate)
         /\ parameters' = simTemplate.defaultParameters
         /\ graphData' = Regenerate(NewProblem(simTemplate), simTemplate.defaultParameters)
    /\ currentTime' = ZeroTime
    /\ currentView' = "simulation"
    /\ autoPlayDue' = TRUE
    /\ changes' = 0
    /\ UNCHANGED <<isPlaying, engine>>

\* mutation: the sliders update the parameters but keep the old trajectory
HandleParameterChangeKeepsData ==
    /\ ~autoPlayDue
    /\ simulation # Null /\ problem # Null /\ changes < MaxChanges
    /\ \E def \in ParameterDefs(simulation) : \E value \in SliderPositions(def) :
         parameters' = Spread(parameters, def.key, value)
    /\ changes' = changes + 1
    /\ UNCHANGED <<currentView, simulation, problem, graphData, currentTime,
                   isPlaying, autoPlayDue, engine>>

\* handleParameterChange(key, value): returns at once when nothing is loaded
HandleParameterChange ==
    /\ ~autoPlayDue
    /\ \E def \in ParameterDefs(simulation) : \E value \in SliderPositions(def) :
         IF simulation = Null \/ problem = Null
         THEN UNCHANGED <<parameters, graphData, currentTime, autoPlayDue, changes>>
         ELSE LET newParams == Spread(parameters, def.key, value)
              IN /\ changes < MaxChanges
                 /\ parameters' = newParams
                 /\ graphData' = Regenerate(problem, newParams)
                 /\ currentTime' = ZeroTime
                 /\ autoPlayDue' = TRUE
                 /\ changes' = changes + 1
    /\ UNCHANGED <<currentView, simulation, problem, isPlaying, engine>>

\* handleReset()
HandleReset ==
    /\ SimulationShown /\ ~autoPlayDue
    /\ currentTime' = ZeroTime
    /\ isPlaying' = FALSE
    /\ UNCHANGED <<currentView, simulation, problem, parameters, graphData,
                   autoPlayDue, changes, engine>>

\* handleNewSimulation(): the canvas unmounts
HandleNewSimulation ==
    /\ SimulationShown /\ ~autoPlayDue
    /\ currentView' = "input"
    /\ simulation' = Null
    /\ problem' = Null
    /\ graphData' = <<>>
    /\ isPlaying' = FALSE
    /\ currentTime' = ZeroTime
    /\ changes' = 0
    /\ UNCHANGED <<parameters, autoPlayDue, engine>>

\* onBrowseClick and the back button: setCurrentView
SetCurrentView ==
    /\ currentView \in {"input", "browser"}
    /\ currentView' = IF currentView = "input" THEN "browser" ELSE "input"
    /\ UNCHANGED <<simulation, problem, parameters, graphData, isPlaying,
                   currentTime, autoPlayDue, changes, engine>>

\* onPlayPauseToggle: () => setIsPlaying(!isPlaying), from the play button
OnPlayPauseToggle ==
    /\ SimulationShown /\ ~autoPlayDue
    /\ isPlaying' = ~isPlaying
    /\ UNCHANGED <<currentView, simulation, problem, parameters, graphData,
                   currentTime, autoPlayDue, changes, engine>>

\* the canvas effect that runs when graphData changed: auto-play on data load
AutoPlayEffect ==
    /\ autoPlayDue
    /\ isPlaying' = IF Len(graphData) > 0 /\ currentTime = ZeroTime
                    THEN ~isPlaying ELSE isPlaying
    /\ autoPlayDue' = FALSE
    /\ UNCHANGED <<currentView, simulation, problem, parameters, graphData,
                   currentTime, changes, engine>>

\* one animation frame of the canvas: onTimeUpdate(newTime), or 0 past the end
Animate ==
    /\ SimulationShown /\ ~autoPlayDue
    /\ isPlaying /\ Len(graphData) # 0
    /\ LLess(currentTime, ClockAfter(MaxFrames))
    /\ LET newTime == FAdd(currentTime, DT)
       IN currentTime' = IF LLeq(graphData[Len(graphData)].time, newTime)
                         THEN ZeroTime ELSE newTime
    /\ UNCHANGED <<currentView, simulation, problem, parameters, graphData,
                   isPlaying, autoPlayDue, changes, engine>>

InitWorkspace == GeneratorIdle /\ WorkspaceInit

NextWorkspace ==
    \/ LoadSimulation
    \/ HandleParameterChange
    \/ HandleReset
    \/ HandleNewSimulation
    \/ SetCurrentView
    \/ OnPlayPauseToggle
    \/ AutoPlayEffect
    \/ Animate

SpecWorkspace == InitWorkspace /\ [][NextWorkspace]_vars

(* ---------------- the stacked-block decision in doubles ---------------- *)

\* The accelerations of generateBlockOnBlockData depend on the parameters
\* only, and which branch is taken at the slip threshold depends on the
\* rounding of the products, so they are computed here bit-exactly: a double
\* is a tuple of NLimbs base-65536 digits counting units of 2^-58, as the
\* clock.  The second factor of a product and the divisor of a quotient are
\* multiples of 1/2 (the masses and g of the inputs below), so the exact
\* result is a short multiplication and a short division, rounded once.

\* 1.0 in units of 2^-58
One == <<0, 0, 0, 1024, 0>>

\* a - b for a >= b, exact
LSub(a, b) == Norm([i \in 1..NLimbs |-> a[i] - b[i]], 1, 0)

\* floor(a / k) and the remainder, for 0 < k < 2^15: <<quotient, remainder>>
RECURSIVE LDivFrom(_, _, _, _)
LDivFrom(a, k, i, rem) ==
    IF i = 0 THEN <<a, rem>>
    ELSE LET cur == rem * Base + a[i]
         IN LDivFrom([a EXCEPT ![i] = cur \div k], k, i - 1, cur % k)

LDiv(a, k) == LDivFrom(a, k, NLimbs, 0)

\* round a quotient with its remainder to the nearest double, ties to even
RoundQuotient(qr) ==
    LET q == qr[1]
        d == BitLen(q) - 53
    IN IF d <= 0 THEN q
       ELSE LET unit == 2^d
                rem  == q[1] % unit
                down == [q EXCEPT ![1] = q[1] - rem]
                odd  == (q[1] \div unit) % 2 = 1
            IN IF rem * 2 > unit \/ (rem * 2 = unit /\ (qr[2] # 0 \/ odd))
               THEN LAdd(down, [i \in 1..NLimbs |-> IF i = 1 THEN unit ELSE 0])
               ELSE down

\* the double nearest to n / den: a parameter given in tenths or hundredths
DoubleOf(n, den) == RoundQuotient(LDiv(LMul(One, n), den))

\* a parameter in tenths as a number of halves
Halves(tenths) == tenths \div 5

\* x * y and x / y in double arithmetic, for y = h / 2
DTimes(x, h) == RoundQuotient(LDiv(LMul(x, h), 2))
DOver(x, h) == RoundQuotient(LDiv(LMul(x, 2), h))

\* a - b in double arithmetic, for a >= b
DMinus(a, b) == RoundDouble(LSub(a, b))

\* the accelerations of one tick: the branch taken, a1, a2
BlockAccelDouble(p) ==
    LET g  == Halves(OrDefault(p, "gravity", 98))
        m1 == Halves(OrDefault(p, "mass", 20))
        m2 == Halves(OrDefault(p, "mass2", 40))
        F  == DoubleOf(OrDefault(p, "appliedForce", 200), 10)
        mu1 == DoubleOf(OrDefault(p, "frictionCoefficient", 30), 100)
        mu2 == DoubleOf(OrDefault(p, "frictionCoefficient2", 10), 100)
        f1_max == DTimes(DTimes(mu1, m1), g)
        f1_k   == DTimes(DTimes(mu1, m1), g)
        f2_k   == DTimes(DTimes(mu2, m1 + m2), g)
    IN IF LLess(f2_k, F)
       THEN LET netForceSystem == DMinus(F, f2_k)
                a_common == DOver(netForceSystem, m1 + m2)
                f_needed == DTimes(a_common, m1)
            IN IF LLeq(f_needed, f1_max)
               THEN [branch |-> "together", a1 |-> a_common, a2 |-> a_common]
               ELSE [branch |-> "slip", a1 |-> DOver(f1_k, m1),
                     a2 |-> DOver(DMinus(netForceSystem, f1_k), m2)]
       ELSE [branch |-> "rest", a1 |-> ZeroTime, a2 |-> ZeroTime]

\* stacked-block parameters whose masses and g are multiples of 1/2
StackedInputs ==
    { [gravity |-> 100, mass |-> m1, mass2 |-> m2, appliedForce |-> F,
       frictionCoefficient |-> mu1, frictionCoefficient2 |-> mu2] :
        m1 \in {15, 30}, m2 \in {20, 40}, F \in {100, 525, 1050, 2000},
        mu1 \in {40, 80}, mu2 \in {35, 70} }

InitStacked ==
    /\ objectType = "block"
    /\ params \in StackedInputs
    /\ pc = "idle"
    /\ simType = "none"
    /\ gen = "none"
    /\ loc = [none |-> TRUE]
    /\ t = ZeroTime
    /\ data = <<>>
    /\ returned = <<>>
    /\ WorkspaceInit

\* the force balance at the head of the loop body of generateBlockOnBlockData
BlockOnBlockForces ==
    /\ pc = "idle"
    /\ Dispatch(getSimulationType(objectType, params)) = "generateBlockOnBlockData"
    /\ gen' = "generateBlockOnBlockData"
    /\ loc' = BlockAccelDouble(params)
    /\ pc' = "forces"
    /\ UNCHANGED <<workspace, returned, objectType, params, simType, t, data>>

NextStacked == BlockOnBlockForces

SpecStacked == InitStacked /\ [][NextStacked]_vars

(* ----------------- classifier inputs: every key combination ------------ *)

\* an option is <<>> (key absent) or <<v>> (key present with value v)
AngleOptions(ot) ==
    IF ot = "pendulum" THEN {<<>>, <<30>>, <<60>>}
    ELSE {<<>>, <<0>>, <<30>>, <<90>>, <<180>>, <<270>>}

\* the mapping holding the keys whose option is present
Build(o) == [k \in {key \in DOMAIN o : o[key] # <<>>} |-> o[k][1]]

InitClassify ==
    /\ \E ot \in ObjectTypes : \E a \in AngleOptions(ot),
          v \in {<<>>, <<0>>, <<100>>}, len \in {<<>>, <<10>>},
          inc \in {<<>>, <<30>>}, m2 \in {<<>>, <<15>>}, f \in {<<>>, <<150>>} :
            /\ objectType = ot
            /\ params = Build([angle |-> a, initialVelocity |-> v, length |-> len,
                               inclineAngle |-> inc, mass2 |-> m2, appliedForce |-> f])
    /\ pc = "idle"
    /\ simType = "none"
    /\ gen = "none"
    /\ loc = [none |-> TRUE]
    /\ t = ZeroTime
    /\ data = <<>>
    /\ returned = <<>>
    /\ WorkspaceInit

NextClassify ==
    \/ GetSimulationType
    \/ GenerateSimulationData

SpecClassify == InitClassify /\ [][NextClassify]_vars

(* -------------------------------- claims ------------------------------- *)

Classified == pc # "idle"
Running == pc \in {"loop", "done"}
Samples == 1..Len(data)

\* C1: for a pendulum object the classifier returns conical-pendulum exactly
\* when both the angle and the length key are present, and pendulum otherwise,
\* whatever other keys are present.
C1_PendulumRule ==
    (Classified /\ objectType = "pendulum") =>
        simType = IF Has(params, "angle") /\ Has(params, "length")
                  THEN "conical-pendulum" ELSE "pendulum"

C1_Witness ==
    /\ pc = "classified" /\ objectType = "pendulum"
    /\ simType = "conical-pendulum"
    /\ {"inclineAngle", "mass2", "appliedForce"} \subseteq DOMAIN params

\* C2: for a non-pendulum object with inclineAngle present the classifier
\* returns incline-pulley when mass2 is present and incline-friction otherwise;
\* an appliedForce key does not change this.
C2_InclineRule ==
    (Classified /\ objectType # "pendulum" /\ Has(params, "inclineAngle")) =>
        simType = IF Has(params, "mass2") THEN "incline-pulley" ELSE "incline-friction"

C2_Witness ==
    /\ pc = "classified" /\ objectType # "pendulum"
    /\ {"inclineAngle", "appliedForce"} \subseteq DOMAIN params
    /\ ~Has(params, "mass2")
    /\ simType = "incline-friction"

\* C3: for a non-pendulum object without inclineAngle, generateSimulationData
\* runs the stacked-block generator when mass2 and appliedForce are both
\* present, the horizontal-friction generator when appliedForce is present
\* without mass2, and the projectile generator in every other case.
C3_FlatDispatch ==
    (pc = "loop" /\ objectType # "pendulum" /\ ~Has(params, "inclineAngle")) =>
        gen = IF Has(params, "mass2") /\ Has(params, "appliedForce")
                  THEN "generateBlockOnBlockData"
              ELSE IF Has(params, "appliedForce")
                  THEN "generateFrictionHorizontalData"
              ELSE "generateKinematicsData"

C3_Witness ==
    /\ pc = "loop" /\ objectType # "pendulum"
    /\ ~Has(params, "inclineAngle")
    /\ {"mass2", "appliedForce"} \subseteq DOMAIN params
    /\ gen = "generateBlockOnBlockData"
    /\ simType = "block-on-block"

\* C4 (as claimed): the k-th sample of every trajectory carries time = k * 0.02.
C4_TimeIsKTimesDt ==
    Running => \A i \in Samples : data[i].time = FMulDt(i - 1)

\* C5 (as claimed): a returned trajectory has at most maxTime / dt samples
\* (250 for the horizontal-friction generator, 500 for the others) and its
\* last time stamp is below the generator's duration cap.
C5_AtMostCapSteps ==
    pc = "done" =>
        /\ Len(data) <= (IF gen = "generateFrictionHorizontalData" THEN 250 ELSE 500)
        /\ \A i \in Samples :
              LLess(data[i].time,
                    IF gen = "generateFrictionHorizontalData" THEN MaxTime5 ELSE MaxTime10)

SampleFields ==
    {"positionX", "positionY", "velocityX", "velocityY", "accelerationX",
     "accelerationY", "kineticEnergy", "potentialEnergy", "totalEnergy"}

\* C6 (as claimed): whatever keys are absent, every field of every sample is
\* a defined finite number.
C6_AllFieldsFinite ==
    Running => \A i \in Samples : \A f \in SampleFields : ~IsNaN(data[i][f])

\* <<key, local, default>> rows: gravity and mass in tenths, friction in hundredths
UniformDefaults(generator) ==
    {<<"gravity", "g", 98>>} \cup
    CASE generator \in {"generateKinematicsData", "generatePendulumData",
                        "generateConicalPendulumData"} ->
             {<<"mass", "mass", 10>>}
      [] generator = "generateInclineFrictionData" ->
             {<<"mass", "mass", 10>>, <<"frictionCoefficient", "muK", 0>>}
      [] generator = "generateFrictionHorizontalData" ->
             {<<"mass", "mass", 10>>, <<"staticFriction", "muS", 0>>,
              <<"kineticFriction", "muK", 0>>}
      [] generator = "generateInclinePulleyData" ->
             {<<"mass", "m1", 10>>, <<"frictionCoefficient", "muK", 0>>}
      [] generator = "generateBlockOnBlockData" ->
             {<<"mass", "m1", 10>>, <<"frictionCoefficient", "mu1", 0>>,
              <<"frictionCoefficient2", "mu2", 0>>}

ModelDefaults(generator) ==
    {<<"gravity", "g", 98>>} \cup
    CASE generator \in {"generateKinematicsData", "generatePendulumData",
                        "generateConicalPendulumData"} ->
             {<<"mass", "mass", 10>>}
      [] generator = "generateInclineFrictionData" ->
             {<<"mass", "mass", 10>>, <<"frictionCoefficient", "muK", 30>>}
      [] generator = "generateFrictionHorizontalData" ->
             {<<"mass", "mass", 25>>, <<"staticFriction", "muS", 50>>,
              <<"kineticFriction", "muK", 40>>}
      [] generator = "generateInclinePulleyData" ->
             {<<"mass", "m1", 20>>, <<"frictionCoefficient", "muK", 20>>}
      [] generator = "generateBlockOnBlockData" ->
             {<<"mass", "m1", 20>>, <<"frictionCoefficient", "mu1", 30>>,
              <<"frictionCoefficient2", "mu2", 10>>}

ProjectileCase == Running /\ gen = "generateKinematicsData" /\ ~loc.isUniformAccel

\* the state a sample was stepped from: the launch state for the first sample
Before(i) ==
    IF i = 1
    THEN [vx |-> LaunchVx(params), vy |-> LaunchVy(params),
          x |-> Fin(0), y |-> LaunchY(params), time |-> ZeroTime]
    ELSE [vx |-> data[i-1].velocityX, vy |-> data[i-1].velocityY,
          x |-> data[i-1].positionX, y |-> data[i-1].positionY,
          time |-> FAdd(data[i-1].time, DT)]

\* C8: in the projectile case every sample is one semi-implicit Euler step
\* from the state before it: the acceleration is (0, -g), the velocity is the
\* old velocity plus acceleration times dt, the position is the old position
\* plus the NEW velocity times dt; the first sample, stamped time 0, is already
\* one step from the launch state, so sample k holds the state after k+1 steps.
C8_SemiImplicitEuler ==
    ProjectileCase =>
        \A i \in Samples :
            LET b == Before(i)
                g == OrDefault(params, "gravity", 98)
            IN /\ data[i].time = b.time
               /\ data[i].accelerationX = Fin(0)
               /\ data[i].accelerationY = Fin(-g)
               /\ data[i].velocityX = b.vx
               \* g/10 m/s^2 over 1/50 s, in 1/250 m/s
               /\ data[i].velocityY = NAdd(b.vy, Fin(-(g \div 2)))
               \* 1/250 m/s over 1/50 s is one position unit of 1/12500 m
               /\ data[i].positionX = NAdd(b.x, data[i].velocityX)
               /\ data[i].positionY = NAdd(b.y, data[i].velocityY)

C8_Witness ==
    /\ ProjectileCase /\ pc = "done"
    /\ ParamIs(params, "angle", 45) /\ ParamIs(params, "initialVelocity", 150)
    /\ Len(data) > 100
    /\ ~IsNaN(data[Len(data)].positionX) /\ Val(data[Len(data)].positionX) > 0

BelowGround(i) == NLt(data[i].positionY, Fin(0))

OneSecond == <<0, 0, 0, 2^10, 0>>

\* C10 (as claimed): launched straight up at 10 m/s under g = 9.8 from y = 0,
\* the first sample with positionY below 0 is stamped within one step (0.02 s)
\* of 2 * v0 / g = 2.0408 s:  |t - 100/49| <= 1/50, i.e. 9902 <= 4900 t <= 10098.
C10_TimeOfFlight ==
    ( /\ Running /\ gen = "generateKinematicsData"
      /\ ParamIs(params, "initialVelocity", 100) /\ ParamIs(params, "angle", 90)
      /\ ParamIs(params, "gravity", 98) /\ ~Has(params, "initialHeight") ) =>
        \A i \in Samples :
            (BelowGround(i) /\ \A j \in 1..(i-1) : ~BelowGround(j)) =>
                /\ LLeq(LMul(OneSecond, 9902), LMul(data[i].time, 4900))
                /\ LLeq(LMul(data[i].time, 4900), LMul(OneSecond, 10098))

InclineRun == Running /\ gen = "generateInclineFrictionData"

\* released at rest with m g sin(theta) <= 1.2 muK m g cos(theta)
InclineHeldAtRest(p) ==
    LET theta == OrDefault(p, "inclineAngle", 30)
        muK == OrDefault(p, "frictionCoefficient", 30)
    IN /\ OrDefault(p, "direction", 1) = 1
       /\ 1000 * IncSin1000(theta) <= 12 * muK * IncCos1000(theta)

PulleyRun == Running /\ gen = "generateInclinePulleyData"

\* |m2 g - m1 g sin(theta)| <= 1.2 muK m1 g cos(theta)
PulleyHeldAtRest(p) ==
    LET m1 == OrDefault(p, "mass", 20)
        m2 == OrDefault(p, "mass2", 15)
        theta == OrDefault(p, "inclineAngle", 30)
        muK == OrDefault(p, "frictionCoefficient", 20)
    IN 1000 * Abs(m2 * 1000 - m1 * IncSin1000(theta)) <= 12 * muK * m1 * IncCos1000(theta)

\* C12: an incline-pulley system whose driving force |m2 g - m1 g sin(theta)|
\* does not exceed the static friction muS m1 g cos(theta) has acceleration 0
\* and velocity 0 in every sample and its displacement stays 0.
C12_PulleyEquilibrium ==
    (PulleyRun /\ PulleyHeldAtRest(params)) =>
        /\ loc.s = 0 /\ loc.v = 0 /\ loc.a = 0
        /\ \A i \in Samples :
              /\ data[i].velocityX = Fin(0) /\ data[i].velocityY = Fin(0)
              /\ data[i].accelerationX = Fin(0) /\ data[i].accelerationY = Fin(0)
              /\ data[i].positionX = Fin(0) /\ data[i].positionY = Fin(0)

C12_Witness ==
    /\ PulleyRun /\ pc = "done"
    /\ ParamIs(params, "mass", 20) /\ ParamIs(params, "mass2", 10)
    /\ ParamIs(params, "inclineAngle", 30)
    /\ Len(data) > 400
    /\ loc.s = 0

BlockRun == Running /\ gen = "generateBlockOnBlockData"

\* the accelerations <<a1, a2>> of the three regimes, in 1/1000 m/s^2, from
\* the parameters: masses, force and g in tenths, coefficients in hundredths
StackedDecision(p) ==
    LET g == OrDefault(p, "gravity", 98)
        m1 == OrDefault(p, "mass", 20)
        m2 == OrDefault(p, "mass2", 40)
        F == 1000 * OrDefault(p, "appliedForce", 200)
        f_ground == OrDefault(p, "frictionCoefficient2", 10) * (m1 + m2) * g
        f1 == OrDefault(p, "frictionCoefficient", 30) * m1 * g
    IN IF F <= f_ground THEN <<0, 0>>
       \* m1 * a_common <= f1_max
       ELSE IF m1 * (F - f_ground) <= f1 * (m1 + m2)
            THEN <<(F - f_ground) \div (m1 + m2), (F - f_ground) \div (m1 + m2)>>
            ELSE <<f1 \div m1, TDiv(F - f_ground - f1, m2)>>

\* C13: every stacked-block sample reports (a1, a2) = (0, 0) when F <= f_ground,
\* (a_common, a_common) when F > f_ground and m1 a_common <= f1_max, and
\* (f1_k / m1, (F - f_ground - f1_k) / m2) when m1 a_common > f1_max.
C13_StackedDecision ==
    BlockRun =>
        \A i \in Samples :
            /\ data[i].accelerationX = Fin(StackedDecision(params)[1])
            /\ data[i].accelerationY = Fin(StackedDecision(params)[2])

C13_Witness ==
    /\ BlockRun /\ pc = "done"
    /\ ParamIs(params, "appliedForce", 236)
    /\ Len(data) > 400
    /\ data[Len(data)].accelerationX # data[Len(data)].accelerationY
    /\ Val(data[Len(data)].accelerationX) = 2940

MaxCalls == 3

RepeatInputs ==
    { [objectType |-> "point_mass",
       params |-> [initialVelocity |-> 0, angle |-> 270, gravity |-> 98, mass |-> 10]],
      [objectType |-> "point_mass",
       params |-> [initialVelocity |-> 100, angle |-> 270, initialHeight |-> 100]],
      [objectType |-> "point_mass",
       params |-> [initialVelocity |-> 100, angle |-> 30, gravity |-> 98]],
      [objectType |-> "block",
       params |-> [inclineAngle |-> 45, frictionCoefficient |-> 50, direction |-> -1]],
      [objectType |-> "block",
       params |-> [mass |-> 20, mass2 |-> 15, inclineAngle |-> 30,
                   frictionCoefficient |-> 20, gravity |-> 98]] }

\* the caller keeps the returned array and calls generateSimulationData again
CallAgain ==
    /\ pc = "done"
    /\ Len(returned) + 1 < MaxCalls
    /\ returned' = Append(returned,
                          [objectType |-> objectType, params |-> params, data |-> data])
    /\ \E sc \in RepeatInputs : objectType' = sc.objectType /\ params' = sc.params
    /\ pc' = "idle"
    /\ UNCHANGED <<workspace, simType, gen, loc, t, data>>

InitRepeat ==
    /\ \E sc \in RepeatInputs : objectType = sc.objectType /\ params = sc.params
    /\ pc = "idle"
    /\ simType = "none"
    /\ gen = "none"
    /\ loc = [none |-> TRUE]
    /\ t = ZeroTime
    /\ data = <<>>
    /\ returned = <<>>
    /\ WorkspaceInit

NextRepeat ==
    \/ GenerateSimulationData
    \/ KinematicsStep
    \/ InclineFrictionStep
    \/ InclinePulleyStep
    \/ ReturnData
    \/ CallAgain

SpecRepeat == InitRepeat /\ [][NextRepeat]_vars

OnPulleyTrack(i) ==
    Abs(Val(data[i].positionX))
        < MulDiv(PulleyTrack, IncCos1000(OrDefault(params, "inclineAngle", 30)), 1000)

\* C16 (as claimed): in an incline-pulley trajectory no sample other than the
\* last has a displacement of 5 m or more, in either direction of motion.
C16_PulleyWithinTrack ==
    PulleyRun => \A i \in 1..(Len(data) - 1) : OnPulleyTrack(i)

PendulumRun == Running /\ gen = "generatePendulumData"

\* C17 (as claimed): for the simple pendulum with length 1, initialAngle 30,
\* gravity 9.8 and mass 1, every sample of the first period (2.04 s; the
\* samples stamped below 2 s are taken) has a totalEnergy within 1% of the
\* totalEnergy of the first sample.
C17_PendulumEnergyWithinOnePercent ==
    ( /\ PendulumRun
      /\ ParamIs(params, "length", 10) /\ ParamIs(params, "initialAngle", 30)
      /\ ParamIs(params, "gravity", 98) /\ ParamIs(params, "mass", 10) ) =>
        \A i \in Samples :
            LLess(data[i].time, LMul(OneSecond, 2)) =>
                100 * Abs(Val(data[i].totalEnergy) - Val(data[1].totalEnergy))
                    <= Val(data[1].totalEnergy)

\* (driving force - sign(v) muK N) / inertial mass for the locals l of a
\* friction generator, in 1/1000 m/s^2
SlidingAcceleration(generator, l) ==
    CASE generator = "generateInclineFrictionData" ->
             TDiv(-(l.mass * l.g * IncSin1000(l.angle))
                    - Sign(l.v) * MulDiv(l.mass * l.g * IncCos1000(l.angle), l.muK, 100),
                  10 * l.mass)
      [] generator = "generateFrictionHorizontalData" ->
             TDiv(l.appliedForce * 1000 - Sign(l.v) * l.muK * l.mass * l.g, l.mass)
      [] generator = "generateInclinePulleyData" ->
             TDiv((l.m2 * l.g * 1000 - l.m1 * l.g * IncSin1000(l.angle))
                    - Sign(l.v) * MulDiv(l.m1 * l.g * IncCos1000(l.angle), l.muK, 100),
                  10 * (l.m1 + l.m2))

FrictionGenerators ==
    {"generateInclineFrictionData", "generateFrictionHorizontalData",
     "generateInclinePulleyData"}

\* C18: in every tick of the incline, horizontal and pulley generators that
\* starts with |v| above the rest threshold, the acceleration of the tick is
\* (driving force - sign(v) muK N) / inertial mass.
C18_KineticFrictionOpposesVelocity ==
    [][ (pc = "loop" /\ gen \in FrictionGenerators /\ Len(data') = Len(data) + 1
           /\ Abs(loc.v) > RestThreshold)
        => loc'.a = SlidingAcceleration(gen, loc) ]_vars

C18_Witness ==
    /\ InclineRun
    /\ OrDefault(params, "direction", 1) = -1
    /\ \E i \in Samples : Val(data[i].velocityX) > 0 /\ Val(data[i].accelerationX) < 0
    /\ loc.v < -RestThreshold
    /\ loc.a = SlidingAcceleration(gen, [loc EXCEPT !.v = -1])
    /\ loc.a < 0

HorizRun == Running /\ gen = "generateFrictionHorizontalData"

\* the tick of sample i started at rest
HorizStartedAtRest(i) == i = 1 \/ Abs(Val(data[i-1].velocityX)) < RestThreshold

\* C19 (as claimed): a horizontal-friction tick that starts at rest is locked
\* (a = 0, v = 0) exactly when |appliedForce| <= muS m g, and otherwise the
\* block starts to move in the direction of the applied force.
C19_HorizontalLockUsesMagnitude ==
    HorizRun =>
        LET F == OrDefault(params, "appliedForce", 150)
            maxStaticFriction == OrDefault(params, "staticFriction", 50)
                                   * OrDefault(params, "mass", 25)
                                   * OrDefault(params, "gravity", 98)
        IN \A i \in Samples :
               HorizStartedAtRest(i) =>
                   IF Abs(F) * 1000 <= maxStaticFriction
                   THEN data[i].accelerationX = Fin(0) /\ data[i].velocityX = Fin(0)
                   ELSE /\ Sign(Val(data[i].accelerationX)) = Sign(F)
                        /\ Sign(Val(data[i].velocityX)) = Sign(F)

\* C20 (as claimed): in every incline-pulley sample the reported velocityY of
\* m1 is positive exactly when its positionY has increased since the previous
\* sample and negative exactly when it has decreased, and accelerationY has
\* the sign of the change of velocityY.
C20_PulleySignConvention ==
    PulleyRun =>
        \A i \in 2..Len(data) :
            /\ Sign(Val(data[i].velocityY))
                   = Sign(Val(data[i].positionY) - Val(data[i-1].positionY))
            /\ Sign(Val(data[i].accelerationY))
                   = Sign(Val(data[i].velocityY) - Val(data[i-1].velocityY))

\* m g sin(theta) <= 1.2 muK m g cos(theta): static friction can hold the block
InclineStaticHolds(p) ==
    1000 * IncSin1000(OrDefault(p, "inclineAngle", 30))
        <= 12 * OrDefault(p, "frictionCoefficient", 30)
              * IncCos1000(OrDefault(p, "inclineAngle", 30))

\* sample i reports the block at rest
InclineSampleAtRest(i) ==
    /\ data[i].velocityX = Fin(0) /\ data[i].velocityY = Fin(0)
    /\ data[i].accelerationX = Fin(0) /\ data[i].accelerationY = Fin(0)

\* C21 (as claimed): on an incline whose static friction holds the block, the
\* first sample that reports the block at rest is the last sample of the
\* trajectory.
C21_InclineStopsOnLock ==
    (InclineRun /\ InclineStaticHolds(params)) =>
        \A i \in Samples : InclineSampleAtRest(i) => i = Len(data)

KinRun == Running /\ gen = "generateKinematicsData"

Displayed == problem # Null => graphData = Regenerate(problem, parameters)

ReplacedTogether ==
    parameters' # parameters =>
        /\ problem' # Null
        /\ graphData' = Regenerate(problem', parameters')
        /\ currentTime' = ZeroTime

NothingLoaded ==
    (simulation = Null \/ problem = Null) /\ simulation' = Null =>
        UNCHANGED <<parameters, graphData, currentTime, isPlaying>>

C23_WorkspaceConsistency ==
    []Displayed /\ [][ReplacedTogether /\ NothingLoaded]_vars

\* a slider was moved and the trajectory on display is no longer the preset's
C23_Witness ==
    /\ changes > 0
    /\ problem # Null
    /\ parameters # simulation.defaultParameters
    /\ graphData # Regenerate(problem, simulation.defaultParameters)
    /\ graphData = Regenerate(problem, parameters)

(* C24: whenever the canvas effect runs for a new non-empty trajectory with
   currentTime = 0, the animation is playing afterwards, whether it was
   playing or paused before. *)
C24_AutoPlayOnDataLoad ==
    [][autoPlayDue /\ ~autoPlayDue' /\ Len(graphData) > 0 /\ currentTime = ZeroTime
         => isPlaying']_vars

\* the parameters a generator reads with a default, and the local each becomes
ReadWithDefault(generatorName) ==
    CASE generatorName = "generateKinematicsData" -> {<<"gravity", "g">>}
      [] generatorName = "generatePendulumData" ->
           {<<"gravity", "g">>, <<"initialAngle", "theta">>}
      [] generatorName = "generateConicalPendulumData" -> {<<"gravity", "g">>}
      [] generatorName = "generateInclineFrictionData" ->
           {<<"gravity", "g">>, <<"inclineAngle", "angle">>,
            <<"frictionCoefficient", "muK">>}
      [] generatorName = "generateFrictionHorizontalData" ->
           {<<"gravity", "g">>, <<"appliedForce", "appliedForce">>,
            <<"staticFriction", "muS">>, <<"kineticFriction", "muK">>}
      [] generatorName = "generateInclinePulleyData" ->
           {<<"gravity", "g">>, <<"inclineAngle", "angle">>,
            <<"frictionCoefficient", "muK">>}
      [] generatorName = "generateBlockOnBlockData" ->
           {<<"gravity", "g">>, <<"appliedForce", "F">>,
            <<"frictionCoefficient", "mu1">>, <<"frictionCoefficient2", "mu2">>}

(* C25: a parameter the sliders set to 0 is used as 0: for the trajectory on
   display, every local a generator reads with a default is 0 when the stored
   parameter is 0. *)
C25_ExplicitZeroHonoured ==
    problem # Null =>
        LET generatorName ==
                Dispatch(getSimulationType(problem.objects[1].type, parameters))
            l == GenInit(generatorName, parameters)
        IN \A rd \in ReadWithDefault(generatorName) :
             ParamIs(parameters, rd[1], 0) => l[rd[2]] = 0

(* C26: in the horizontal-friction model, when the applied force is >= 0 (and
   the friction coefficients lie in [0, 1]) the velocity is >= 0 in every
   sample and the position never decreases from one sample to the next. *)
C26_NeverAgainstThePull ==
    HorizRun /\ loc.appliedForce >= 0
             /\ loc.muS \in 0..100 /\ loc.muK \in 0..100 =>
        \A i \in Samples :
            /\ Val(data[i].velocityX) >= 0
            /\ i > 1 => Val(data[i].positionX) >= Val(data[i-1].positionX)

(* C27: in the incline-friction and incline-pulley models totalEnergy never
   increases from one sample to the next. *)
C27_FrictionOnlyDissipates ==
    InclineRun \/ PulleyRun =>
        \A i \in Samples :
            i > 1 => Val(data[i].totalEnergy) <= Val(data[i-1].totalEnergy)

(* C28: a block launched up the slope (direction = -1) on an incline whose
   static friction can hold it is reported at rest (v = 0, a = 0) in some
   sample before the loop ends, and in every sample after that one. *)
C28_UpSlopeComesToRest ==
    (InclineRun /\ pc = "done" /\ ParamIs(params, "direction", -1)
                /\ InclineStaticHolds(params)) =>
        \E i \in Samples : \A j \in i..Len(data) : InclineSampleAtRest(j)

\* a1 <= a2 for the doubles of the stacked-block force balance
DoubleOrdered == pc = "forces" => LLeq(loc.a1, loc.a2)

(* C29: in the stacked-block model the top block never accelerates faster
   than the bottom block: accelerationX <= accelerationY in every sample (the
   two accelerations are the same in every tick). *)
C29_StackedOrdering == DoubleOrdered

\* the simulation types a preset of the catalog is named for
NamedFor(id) ==
    CASE id \in {"projectile-motion", "vertical-projectile", "free-fall",
                 "uniform-acceleration-1d"} ->
             {"projectile", "vertical-projectile", "free-fall", "uniform-acceleration"}
      [] id = "inclined-plane-friction" -> {"incline-friction"}
      [] id = "friction-horizontal" -> {"friction-horizontal"}
      [] id = "inclined-plane-pulley" -> {"incline-pulley"}
      [] id = "simple-pendulum" -> {"pendulum"}
      [] id = "conical-pendulum" -> {"conical-pendulum"}

\* C30: a preset loaded through loadSimulation with its own defaultParameters
\* and objectType is classified by getSimulationType as the model it is named
\* for
C30_PresetClassifiedAsNamed ==
    (simulation # Null /\ problem # Null /\ parameters = simulation.defaultParameters)
        => getSimulationType(problem.objects[1].type, parameters)
               \in NamedFor(simulation.id)

====
